---- MODULE Spec2Model ----
(***************************************************************************)
(* Model of the Revit type-parameter assigner (app/controller.py):         *)
(*   - the paginated catalog fetch (fetch_elements_catalog) behind the     *)
(*     process-wide ELEMENT_CACHE and the vkt.memoize decorator            *)
(*     (get_elements_catalog);                                             *)
(*   - the payload builder (create_type_params_json);                      *)
(*   - the Design Automation run (Controller.trigger_run_automation) with  *)
(*     its poll loop;                                                      *)
(*   - the query executor (execute_graphql) on its own;                    *)
(*   - the form handlers: the option lists (get_family_options,            *)
(*     get_type_options) and the viewer's color map (autodesk_view).       *)
(***************************************************************************)
EXTENDS Integers, Sequences, FiniteSets, TLC

(***************************************************************************)
(* Python values.  None is Python's None; Truthy is Python truthiness of   *)
(* an Optional[str].                                                       *)
(***************************************************************************)
None == "<None>"

Truthy(x) == x # None /\ x # ""

\* x or d
OrElse(x, d) == IF Truthy(x) THEN x ELSE d

RECURSIVE Concat(_)
\* the concatenation of a sequence of sequences
Concat(ss) == IF ss = <<>> THEN <<>> ELSE Head(ss) \o Concat(Tail(ss))

(***************************************************************************)
(* Bounds of the model.                                                    *)
(***************************************************************************)
\* page requests one build may issue before the model stops following it
MaxPages == 3
\* get_elements_catalog invocations in one run of the process
MaxCalls == 2

(***************************************************************************)
(* The Data Exchange server as the catalog fetch sees it.                  *)
(***************************************************************************)
Sessions == {1, 2}
Keys == {"x1", "x2"}
Tokens == {"t1", "t2"}
Regions == {"US"}
Args == [exchange_id : Keys, token : Tokens, region : Regions]

\* raw elements of a response page: the two requested properties and the
\* externalElementId of alternativeIdentifiers
RawE1 == [family |-> "F", element |-> "T", ext |-> "E1"]
RawE2 == [family |-> "G", element |-> "T", ext |-> "E2"]
RawE3 == [family |-> "F", element |-> "U", ext |-> None]
PageResults == {<<>>, <<RawE1>>, <<RawE2, RawE3>>}
Cursors == {None, "", "c1", "c2"}
PageBlocks == [results : PageResults, cursor : Cursors]
NoPage == [results |-> <<>>, cursor |-> None]

\* an HTTP response of the GraphQL endpoint: status code, whether the body
\* carries a non-empty "errors" list, whether it carries a "data" field
Responses ==
    {[status |-> 200, errors |-> FALSE, hasData |-> TRUE, page |-> p] : p \in PageBlocks}
    \cup {[status |-> 200, errors |-> FALSE, hasData |-> FALSE, page |-> NoPage],
          [status |-> 200, errors |-> TRUE, hasData |-> TRUE, page |-> NoPage],
          [status |-> 500, errors |-> FALSE, hasData |-> FALSE, page |-> NoPage]}

VARIABLES
    ELEMENT_CACHE,  \* dict exchange_id -> catalog (a function on the cached keys)
    memo,           \* the vkt.memoize store of get_elements_catalog: args -> catalog
    pc,             \* per session: "idle", "fetching", "returned", "raised"
    args,           \* per session: the arguments of the running call
    cursor,         \* per session: fetch_elements_catalog's cursor
    catalog,        \* per session: fetch_elements_catalog's catalog
    page,           \* per session: fetch_elements_catalog's page counter
    result,         \* per session: what the call gave its caller
    sent,           \* per session: the cursors of the requests issued by the call
    pages,          \* per session: the page blocks the call received
    prior,          \* per session: what earlier calls for the key did ("none", "succeeded", "failed")
    calls,          \* number of get_elements_catalog invocations so far
    builds,         \* per key: number of completed catalog builds
    done,           \* keys for which a call has returned a catalog
    failed,         \* keys for which a build has failed
    completed       \* per key: the page logs of the completed builds, in completion order

catalogVars == <<ELEMENT_CACHE, memo, pc, args, cursor, catalog, page, result,
                 sent, pages, prior, calls, builds, done, failed, completed>>

VARIABLES
    rows,               \* params.assignments_section.assignments
    autodesk_file,      \* params.run_automation.autodesk_file: selected or not, its ids
    manifest,           \* what fetch_manifest gives for the file
    table,              \* TYPE_PARAMETERS_CONFIG as the environment filled it
    jpc,                \* position of trigger_run_automation / of the payload build
    revit_version,      \* trigger_run_automation's revit_version
    signature,          \* (signature, activity_full_alias) resolved for the version
    type_params_config, \* the payload built from rows
    elapsed,            \* poll loop: seconds slept so far
    final_status,       \* poll loop: status of the last status fetch
    report_url,         \* poll loop: reportUrl of the last status fetch
    pct,                \* last percentage given to vkt.progress_message
    error,              \* the exception the run ended with
    summary,            \* the success message's figures
    submitted,          \* number of run_public_activity calls
    polls,              \* number of get_workitem_status calls
    sleeps,             \* number of time.sleep calls
    finalized,          \* number of output_file.create_acc_item calls
    prev_status         \* status of the status fetch before the last one

jobVars == <<rows, autodesk_file, manifest, table, jpc, revit_version, signature,
             type_params_config, elapsed, final_status, report_url, pct, error,
             summary, submitted, polls, sleeps, finalized, prev_status>>

VARIABLES
    response,   \* execute_graphql alone: the HTTP response its request gets
    outcome,    \* execute_graphql alone: what the call gave its caller
    posts       \* execute_graphql alone: number of requests.post calls

queryVars == <<response, outcome, posts>>

VARIABLES
    model_file,             \* params.model.autodesk_file: selected or not, its ids
    parameter_table,        \* params.parameter_section.parameter_table
    lookup,                 \* what the exchangeByFileUrn query of the handler was answered
    info,                   \* what get_model_info gave the handler
    upc,                    \* position of the form handler
    field,                  \* the handler: "view", "family" or "type"
    row_i,                  \* get_type_options: the row the loop is at
    options,                \* what the option handler has derived
    external_id_color_map,  \* autodesk_view's dict, as (id, color) pairs in insertion order
    painted,                \* per assignment row: the ids its iteration assigned a color to
    ui_error,               \* the exception that left the handler
    caught,                 \* the derivations whose exception the handler caught
    queries,                \* page requests of the handler's last catalog call
    was_cached              \* whether ELEMENT_CACHE held the key when that call began

formVars == <<model_file, parameter_table, lookup, info, upc, field, row_i, options,
              external_id_color_map, painted, ui_error, caught, queries, was_cached>>

uiVars == <<queryVars, formVars>>

vars == <<catalogVars, jobVars, uiVars>>

NoResponse == [status |-> 0, errors |-> FALSE, hasData |-> FALSE,
               page |-> [results |-> <<>>, cursor |-> None]]
NoOutcome == [ok |-> FALSE, error |-> None, page |-> [results |-> <<>>, cursor |-> None]]

\* no separate execute_graphql call in this process
QueryOff ==
    /\ response = NoResponse
    /\ outcome = NoOutcome
    /\ posts = 0

NoLookup == [status |-> 0, errors |-> FALSE, id |-> None]
NoInfo == [kind |-> "none", error |-> None, exchange_id |-> None,
           token |-> None, region |-> None]
NoUiError == [type |-> "none", reason |-> None]

\* what a form handler starts from
FormFresh ==
    /\ lookup = NoLookup
    /\ info = NoInfo
    /\ field = "none"
    /\ row_i = 0
    /\ options = <<>>
    /\ external_id_color_map = <<>>
    /\ painted = <<>>
    /\ ui_error = NoUiError
    /\ caught = {}
    /\ queries = 0
    /\ was_cached = FALSE

\* no form handler in this process
FormOff ==
    /\ model_file = [selected |-> FALSE, project_id |-> None, urn |-> None]
    /\ parameter_table = <<>>
    /\ upc = "off"
    /\ FormFresh

UiOff == QueryOff /\ FormOff

NoArgs == [exchange_id |-> None, token |-> None, region |-> None]
NoResult == [kind |-> "none", catalog |-> <<>>, error |-> None]
Returned(c) == [kind |-> "catalog", catalog |-> c, error |-> None]
Raised(e) == [kind |-> "error", catalog |-> <<>>, error |-> e]

(***************************************************************************)
(* execute_graphql                                                         *)
(***************************************************************************)
\* variant of execute_graphql that looks at the body's errors before the status
execute_graphql_body_first(resp) ==
    IF resp.errors THEN [ok |-> FALSE, error |-> "GraphQL", page |-> NoPage]
    ELSE IF resp.status # 200 THEN [ok |-> FALSE, error |-> "HTTP", page |-> NoPage]
    ELSE IF resp.hasData THEN [ok |-> TRUE, error |-> None, page |-> resp.page]
    ELSE [ok |-> TRUE, error |-> None, page |-> NoPage]

\* the outcome of one call: the raised error, or body.get("data", {})
execute_graphql(resp) ==
    IF resp.status # 200 THEN [ok |-> FALSE, error |-> "HTTP", page |-> NoPage]
    ELSE IF resp.errors THEN [ok |-> FALSE, error |-> "GraphQL", page |-> NoPage]
    ELSE IF resp.hasData THEN [ok |-> TRUE, error |-> None, page |-> resp.page]
    ELSE [ok |-> TRUE, error |-> None, page |-> NoPage]

(***************************************************************************)
(* fetch_elements_catalog                                                  *)
(***************************************************************************)
\* the catalog record of one raw element
ToRecord(e) ==
    [family_name |-> e.family,
     element_name |-> e.element,
     external_id |-> e.ext]

ToRecords(results) == [i \in 1..Len(results) |-> ToRecord(results[i])]

\* variant of ExtendCatalog that puts each page before the earlier ones
ExtendCatalogFront(cat, results) == ToRecords(results) \o cat

\* the for loop over one page's results: catalog.append per element
ExtendCatalog(cat, results) == cat \o ToRecords(results)

\* variant of PageEndsLoop that tests `cursor is None`
PageEndsLoopNoneOnly(p) == p.cursor = None

\* variant of PageEndsLoop that also breaks on a page without results
PageEndsLoopOnEmptyPage(p) == ~Truthy(p.cursor) \/ p.results = <<>>

\* cursor = pagination.get("cursor"); if not cursor: break
PageEndsLoop(p) == ~Truthy(p.cursor)

(***************************************************************************)
(* get_elements_catalog                                                    *)
(***************************************************************************)
\* variant of CacheHit for a lookup that never finds the key
CacheHitNever(cache, k) == FALSE

\* exchange_id in ELEMENT_CACHE
CacheHit(cache, k) == k \in DOMAIN cache

\* variant of StoreCatalog for a cache that holds one entry and evicts the rest
StoreCatalogEvicting(cache, k, cat) == [x \in {k} |-> cat]

\* variant of StoreCatalog that adds the catalog to the entry already held
StoreCatalogMerging(cache, k, cat) ==
    [x \in DOMAIN cache \cup {k} |->
        IF x # k THEN cache[x]
        ELSE IF k \in DOMAIN cache THEN cache[k] \o cat ELSE cat]

\* ELEMENT_CACHE[exchange_id] = catalog
StoreCatalog(cache, k, cat) ==
    [x \in DOMAIN cache \cup {k} |-> IF x = k THEN cat ELSE cache[x]]

\* variant of CacheAfterFailure for a cache that is emptied when a build fails
CacheAfterFailureCleared(cache, k, partial) == <<>>

\* variant of CacheAfterFailure that stores what was fetched before the error
CacheAfterFailurePartial(cache, k, partial) == StoreCatalog(cache, k, partial)

\* fetch_elements_catalog raised: the assignment to ELEMENT_CACHE is not reached
CacheAfterFailure(cache, k, partial) == cache

\* vkt.memoize stores the returned value under the call's arguments
Memoize(m, a, cat) == [x \in DOMAIN m \cup {a} |-> IF x = a THEN cat ELSE m[x]]

PriorOf(k) == IF k \in done THEN "succeeded"
              ELSE IF k \in failed THEN "failed" ELSE "none"

\* a session calls get_elements_catalog(exchange_id, token, region)
Call(s, a) ==
    /\ pc[s] = "idle"
    /\ calls < MaxCalls
    /\ calls' = calls + 1
    /\ args' = [args EXCEPT ![s] = a]
    /\ prior' = [prior EXCEPT ![s] = PriorOf(a.exchange_id)]
    /\ sent' = [sent EXCEPT ![s] = <<>>]
    /\ pages' = [pages EXCEPT ![s] = <<>>]
    /\ IF a \in DOMAIN memo
       THEN /\ pc' = [pc EXCEPT ![s] = "returned"]
            /\ result' = [result EXCEPT ![s] = Returned(memo[a])]
            /\ done' = done \cup {a.exchange_id}
            /\ UNCHANGED <<ELEMENT_CACHE, memo, cursor, catalog, page>>
       ELSE IF CacheHit(ELEMENT_CACHE, a.exchange_id)
       THEN /\ pc' = [pc EXCEPT ![s] = "returned"]
            /\ result' = [result EXCEPT ![s] = Returned(ELEMENT_CACHE[a.exchange_id])]
            /\ memo' = Memoize(memo, a, ELEMENT_CACHE[a.exchange_id])
            /\ done' = done \cup {a.exchange_id}
            /\ UNCHANGED <<ELEMENT_CACHE, cursor, catalog, page>>
       ELSE /\ pc' = [pc EXCEPT ![s] = "fetching"]
            /\ cursor' = [cursor EXCEPT ![s] = None]
            /\ catalog' = [catalog EXCEPT ![s] = <<>>]
            /\ page' = [page EXCEPT ![s] = 1]
            /\ UNCHANGED <<ELEMENT_CACHE, memo, result, done>>
    /\ UNCHANGED <<builds, failed, completed>>

\* one iteration of the while loop: the request with the current cursor, the
\* server's response, and what the code does with it
FetchPage(s, resp) ==
    /\ pc[s] = "fetching"
    /\ Len(sent[s]) < MaxPages
    /\ sent' = [sent EXCEPT ![s] = Append(@, cursor[s])]
    /\ LET out == execute_graphql(resp)
           k == args[s].exchange_id
           cat == ExtendCatalog(catalog[s], out.page.results)
       IN IF ~out.ok
          THEN /\ pc' = [pc EXCEPT ![s] = "raised"]
               /\ result' = [result EXCEPT ![s] = Raised(out.error)]
               /\ ELEMENT_CACHE' = CacheAfterFailure(ELEMENT_CACHE, k, catalog[s])
               /\ failed' = failed \cup {k}
               /\ UNCHANGED <<memo, cursor, catalog, page, pages, builds, done, completed>>
          ELSE /\ pages' = [pages EXCEPT ![s] = Append(@, out.page)]
               /\ catalog' = [catalog EXCEPT ![s] = cat]
               /\ cursor' = [cursor EXCEPT ![s] = out.page.cursor]
               /\ IF PageEndsLoop(out.page)
                  THEN /\ pc' = [pc EXCEPT ![s] = "returned"]
                       /\ result' = [result EXCEPT ![s] = Returned(cat)]
                       /\ ELEMENT_CACHE' = StoreCatalog(ELEMENT_CACHE, k, cat)
                       /\ memo' = Memoize(memo, args[s], cat)
                       /\ builds' = [builds EXCEPT ![k] = @ + 1]
                       /\ completed' = [completed EXCEPT ![k] = Append(@, Append(pages[s], out.page))]
                       /\ done' = done \cup {k}
                       /\ UNCHANGED <<page>>
                  ELSE /\ page' = [page EXCEPT ![s] = @ + 1]
                       /\ UNCHANGED <<pc, result, ELEMENT_CACHE, memo, builds, done, completed>>
               /\ UNCHANGED <<failed>>
    /\ UNCHANGED <<args, prior, calls>>

\* the caller takes the returned catalog (or the raised error); the call's
\* frame is gone
Finish(s) ==
    /\ pc[s] \in {"returned", "raised"}
    /\ pc' = [pc EXCEPT ![s] = "idle"]
    /\ args' = [args EXCEPT ![s] = NoArgs]
    /\ cursor' = [cursor EXCEPT ![s] = None]
    /\ catalog' = [catalog EXCEPT ![s] = <<>>]
    /\ page' = [page EXCEPT ![s] = 1]
    /\ result' = [result EXCEPT ![s] = NoResult]
    /\ sent' = [sent EXCEPT ![s] = <<>>]
    /\ pages' = [pages EXCEPT ![s] = <<>>]
    /\ prior' = [prior EXCEPT ![s] = "none"]
    /\ UNCHANGED <<ELEMENT_CACHE, memo, calls, builds, done, failed, completed>>

\* no call is running in any session
Serial == \A t \in Sessions : pc[t] = "idle"

\* the process at start: nothing cached, no call running
CatalogFresh ==
    /\ ELEMENT_CACHE = <<>>
    /\ memo = <<>>
    /\ pc = [s \in Sessions |-> "idle"]
    /\ args = [s \in Sessions |-> NoArgs]
    /\ cursor = [s \in Sessions |-> None]
    /\ catalog = [s \in Sessions |-> <<>>]
    /\ page = [s \in Sessions |-> 1]
    /\ result = [s \in Sessions |-> NoResult]
    /\ sent = [s \in Sessions |-> <<>>]
    /\ pages = [s \in Sessions |-> <<>>]
    /\ prior = [s \in Sessions |-> "none"]
    /\ calls = 0
    /\ builds = [k \in Keys |-> 0]
    /\ done = {}
    /\ failed = {}
    /\ completed = [k \in Keys |-> <<>>]

(***************************************************************************)
(* create_type_params_json                                                 *)
(***************************************************************************)
DEFAULT_GROUP == "PG_DATA"

\* variant of SkipRow that tests `param_name is None`
SkipRowNoneOnly(row) == row.parameter = None

\* param_name = row.get("parameter"); if not param_name: continue
SkipRow(row) == ~Truthy(row.parameter)

\* variant of RowGroup without the default group
RowGroupAsGiven(row) == row.parameter_group

\* row.get("parameter_group") or "PG_DATA"
RowGroup(row) == OrElse(row.parameter_group, DEFAULT_GROUP)

\* the target dict of one row
RowTarget(row) ==
    [TypeName |-> OrElse(row.type_name, ""),
     FamilyName |-> OrElse(row.family, ""),
     Value |-> OrElse(row.parameter_value, "")]

\* variant of AppendTarget that keeps one target of several equal ones
AppendTargetDistinct(grouped, name, group, target) ==
    IF \E i \in 1..Len(grouped) :
          grouped[i].ParameterName = name /\ grouped[i].ParameterGroup = group
    THEN [i \in 1..Len(grouped) |->
            IF /\ grouped[i].ParameterName = name
               /\ grouped[i].ParameterGroup = group
               /\ \A n \in 1..Len(grouped[i].Targets) : grouped[i].Targets[n] # target
            THEN [grouped[i] EXCEPT !.Targets = Append(@, target)]
            ELSE grouped[i]]
    ELSE Append(grouped, [ParameterName |-> name, ParameterGroup |-> group,
                          Targets |-> <<target>>])

\* variant of AppendTarget for a dict that puts a new key before the others
AppendTargetNewKeyFirst(grouped, name, group, target) ==
    IF \E i \in 1..Len(grouped) :
          grouped[i].ParameterName = name /\ grouped[i].ParameterGroup = group
    THEN [i \in 1..Len(grouped) |->
            IF grouped[i].ParameterName = name /\ grouped[i].ParameterGroup = group
            THEN [grouped[i] EXCEPT !.Targets = Append(@, target)]
            ELSE grouped[i]]
    ELSE <<[ParameterName |-> name, ParameterGroup |-> group, Targets |-> <<target>>]>>
         \o grouped

\* grouped[(param_name, param_group)].append(target), the dict kept as the
\* sequence of its items in insertion order
AppendTarget(grouped, name, group, target) ==
    IF \E i \in 1..Len(grouped) :
          grouped[i].ParameterName = name /\ grouped[i].ParameterGroup = group
    THEN [i \in 1..Len(grouped) |->
            IF grouped[i].ParameterName = name /\ grouped[i].ParameterGroup = group
            THEN [grouped[i] EXCEPT !.Targets = Append(@, target)]
            ELSE grouped[i]]
    ELSE Append(grouped, [ParameterName |-> name, ParameterGroup |-> group,
                          Targets |-> <<target>>])

RECURSIVE GroupRows(_, _)
\* the first loop: rows taken in order, those without a parameter skipped
GroupRows(rs, grouped) ==
    IF rs = <<>> THEN grouped
    ELSE IF SkipRow(Head(rs)) THEN GroupRows(Tail(rs), grouped)
    ELSE GroupRows(Tail(rs),
                   AppendTarget(grouped, Head(rs).parameter, RowGroup(Head(rs)),
                                RowTarget(Head(rs))))

KeepEntry(e) == Truthy(e.ParameterName) /\ e.Targets # <<>>

RECURSIVE GroupAllRows(_, _)
\* the first loop without its test of the parameter name
GroupAllRows(rs, grouped) ==
    IF rs = <<>> THEN grouped
    ELSE GroupAllRows(Tail(rs),
                      AppendTarget(grouped, Head(rs).parameter, RowGroup(Head(rs)),
                                   RowTarget(Head(rs))))

\* variant of create_type_params_json that tests neither the rows' parameter
\* names nor the items' names and targets
create_type_params_json_unfiltered(rs) == GroupAllRows(rs, <<>>)

\* the second loop: one payload entry per dict item with a name and targets
create_type_params_json(rs) == SelectSeq(GroupRows(rs, <<>>), KeepEntry)

(***************************************************************************)
(* helpers.py: version detection and the per-version activity table        *)
(***************************************************************************)
DEFAULT_REVIT_VERSION == "2024"

RECURSIVE FirstVersion(_)
\* the first truthy RVTVersion among the manifest's derivatives, or None
FirstVersion(ds) ==
    IF ds = <<>> THEN None
    ELSE IF Truthy(Head(ds)) THEN Head(ds) ELSE FirstVersion(Tail(ds))

get_revit_version_from_manifest(m) == FirstVersion(m.derivatives)

\* variant of DetectVersion without the `or DEFAULT_REVIT_VERSION`
DetectVersionNoDefaultForNone(m) ==
    IF ~m.ok THEN DEFAULT_REVIT_VERSION ELSE get_revit_version_from_manifest(m)

\* try: fetch_manifest + get_revit_version_from_manifest(...) or DEFAULT;
\* except: DEFAULT
DetectVersion(m) ==
    IF ~m.ok THEN DEFAULT_REVIT_VERSION
    ELSE OrElse(get_revit_version_from_manifest(m), DEFAULT_REVIT_VERSION)

\* revit_version not in TYPE_PARAMETERS_CONFIG
VersionUnsupported(tbl, v) == v \notin DOMAIN tbl

\* (config["signature"], config["activity_full_alias"])
get_type_parameters_signature(tbl, v) == tbl[v]

(***************************************************************************)
(* Controller.trigger_run_automation                                       *)
(***************************************************************************)
poll_interval == 10
max_wait == 600

NoError == [type |-> "none", reason |-> None, status |-> None, report |-> None]
NoSummary == [configured |-> 0, targets |-> 0, report |-> None]
NoSignature == [signature |-> None, activity_full_alias |-> None]

UserError(reason) == [type |-> "UserError", reason |-> reason, status |-> None, report |-> None]

\* msg = "... Status: {final_status}" plus the report URL when there is one
JobError(st, url) ==
    [type |-> "UserError", reason |-> "job", status |-> st,
     report |-> IF Truthy(url) THEN url ELSE None]

\* variant of PayloadEmpty for a run without the payload check
PayloadEmptyNever(config) == FALSE

\* if not type_params_config
PayloadEmpty(config) == config = <<>>

\* variant of LoopContinues with `elapsed < max_wait`
LoopContinuesStrict(e) == e < max_wait

\* while elapsed <= max_wait
LoopContinues(e) == e <= max_wait

\* variant of IsTerminal for a test on the status' prefix
IsTerminalPrefix(st) == st \in {"success", "failed", "cancelled", "failedInstructions"}

\* variant of IsTerminal that does not know 'cancelled'
IsTerminalNoCancelled(st) == st \in {"success", "failed"}

\* final_status in ("success", "failed", "cancelled")
IsTerminal(st) == st \in {"success", "failed", "cancelled"}

\* variant of JobFailed that raises on 'failed' and 'cancelled' only
JobFailedOnTerminalOnly(st) == st \in {"failed", "cancelled"}

\* if final_status != "success"
JobFailed(st) == st # "success"

Min(a, b) == IF a <= b THEN a ELSE b

\* variant of Progress for an estimate over the whole scale, without the cap
ProgressUncapped(e) == 35 + (e * 65) \div max_wait

\* min(35 + int((elapsed / max_wait) * 55), 90)
Progress(e) == Min(35 + (e * 55) \div max_wait, 90)

RECURSIVE TotalTargets(_)
\* sum(len(entry.get("Targets", [])) for entry in type_params_config)
TotalTargets(config) ==
    IF config = <<>> THEN 0 ELSE Len(Head(config).Targets) + TotalTargets(Tail(config))

jobRunVars == <<elapsed, final_status, report_url, submitted, polls, sleeps,
                finalized, prev_status, summary>>
jobInputs == <<rows, autodesk_file, manifest, table>>

\* the run up to the work item's submission: the file checks, the version and
\* its signature, the payload
Prepare ==
    /\ jpc = "start"
    /\ UNCHANGED <<jobInputs, jobRunVars>>
    /\ IF ~autodesk_file.selected
       THEN /\ jpc' = "error"
            /\ error' = UserError("no model")
            /\ UNCHANGED <<revit_version, signature, type_params_config, pct>>
       ELSE IF ~Truthy(autodesk_file.project_id) \/ ~Truthy(autodesk_file.urn)
       THEN /\ jpc' = "error"
            /\ error' = UserError("missing ids")
            /\ UNCHANGED <<revit_version, signature, type_params_config, pct>>
       ELSE LET v == DetectVersion(manifest)
                config == create_type_params_json(rows)
            IN /\ revit_version' = v
               /\ pct' = 5
               /\ IF VersionUnsupported(table, v)
                  THEN /\ jpc' = "error"
                       /\ error' = [NoError EXCEPT !.type = "ValueError", !.reason = "unsupported version"]
                       /\ UNCHANGED <<signature, type_params_config>>
                  ELSE /\ signature' = get_type_parameters_signature(table, v)
                       /\ type_params_config' = config
                       /\ IF PayloadEmpty(config)
                          THEN /\ jpc' = "error"
                               /\ error' = UserError("validation")
                          ELSE /\ jpc' = "submit"
                               /\ UNCHANGED error

\* workitem.run_public_activity, then the poll loop's initialisation and its
\* first test
Submit ==
    /\ jpc = "submit"
    /\ submitted' = submitted + 1
    /\ pct' = 35
    /\ elapsed' = 0
    /\ final_status' = None
    /\ report_url' = None
    /\ jpc' = IF LoopContinues(0) THEN "poll" ELSE "after"
    /\ UNCHANGED <<jobInputs, revit_version, signature, type_params_config, error,
                   summary, polls, sleeps, finalized, prev_status>>

\* one status fetch that answers, and the loop body up to the break or the sleep
Poll(st, url) ==
    /\ jpc = "poll"
    /\ polls' = polls + 1
    /\ prev_status' = final_status
    /\ final_status' = st
    /\ report_url' = url
    /\ pct' = Progress(elapsed)
    /\ jpc' = IF IsTerminal(st) THEN "after" ELSE "sleep"
    /\ UNCHANGED <<jobInputs, revit_version, signature, type_params_config, elapsed,
                   error, summary, submitted, sleeps, finalized>>

\* variant of AfterStatusFetchError for a loop that swallows the failure and
\* goes on to its sleep
AfterStatusFetchErrorSwallowed == "sleep"

\* where the run stands after get_workitem_status raised: the call is not in
\* any try block, the exception leaves trigger_run_automation
AfterStatusFetchError == "error"

\* a status fetch that raises (resp.raise_for_status()): nothing catches it
PollFails ==
    /\ jpc = "poll"
    /\ polls' = polls + 1
    /\ jpc' = AfterStatusFetchError
    /\ error' = [NoError EXCEPT !.type = "HTTPError", !.reason = "status fetch"]
    /\ UNCHANGED <<jobInputs, revit_version, signature, type_params_config, elapsed,
                   final_status, report_url, pct, summary, submitted, sleeps,
                   finalized, prev_status>>

\* time.sleep(poll_interval); elapsed += poll_interval; the loop's test
Sleep ==
    /\ jpc = "sleep"
    /\ sleeps' = sleeps + 1
    /\ elapsed' = elapsed + poll_interval
    /\ jpc' = IF LoopContinues(elapsed + poll_interval) THEN "poll" ELSE "after"
    /\ UNCHANGED <<jobInputs, revit_version, signature, type_params_config,
                   final_status, report_url, pct, error, summary, submitted, polls,
                   finalized, prev_status>>

\* after the loop: the error, or create_acc_item and the success message
Outcome ==
    /\ jpc = "after"
    /\ IF JobFailed(final_status)
       THEN /\ jpc' = "error"
            /\ error' = JobError(final_status, report_url)
            /\ UNCHANGED <<finalized, pct, summary>>
       ELSE /\ jpc' = "done"
            /\ finalized' = finalized + 1
            /\ pct' = 100
            /\ summary' = [configured |-> Len(type_params_config),
                           targets |-> TotalTargets(type_params_config),
                           report |-> IF Truthy(report_url) THEN report_url ELSE None]
            /\ UNCHANGED error
    /\ UNCHANGED <<jobInputs, revit_version, signature, type_params_config, elapsed,
                   final_status, report_url, submitted, polls, sleeps, prev_status>>

(***************************************************************************)
(* Inputs of the run and of the payload build                              *)
(***************************************************************************)
\* longest row list given to create_type_params_json on its own
MaxRows == 3

\* rows of the assignment table: a filled row of type T1, or a row whose
\* type, family and value were left unset
RowSet == {[parameter |-> p, parameter_group |-> g, type_name |-> ty,
            family |-> IF ty = None THEN None ELSE "F",
            parameter_value |-> IF ty = None THEN None ELSE "V"] :
              p \in {None, "", "P", "Q"},
              g \in {None, "PG_DATA", "PG_TEXT"},
              ty \in {None, "T1"}}

RowLists == UNION {[1..n -> RowSet] : n \in 0..MaxRows}

RowP1 == [parameter |-> "P", parameter_group |-> None, type_name |-> "T1",
          family |-> "F", parameter_value |-> "V"]
RowP2 == [parameter |-> "P", parameter_group |-> "PG_DATA", type_name |-> "T2",
          family |-> None, parameter_value |-> "V"]
RowQ == [parameter |-> "Q", parameter_group |-> "PG_TEXT", type_name |-> "T1",
         family |-> "F", parameter_value |-> "V"]
RowBlank == [parameter |-> None, parameter_group |-> "PG_TEXT", type_name |-> "T1",
             family |-> "F", parameter_value |-> "V"]
RowEmptyName == [RowBlank EXCEPT !.parameter = ""]

\* the assignment tables the runs are started with
JobRowLists == {<<>>, <<RowBlank>>, <<RowBlank, RowEmptyName>>, <<RowP1>>,
                <<RowP1, RowBlank, RowQ, RowP2>>}

\* no file selected, a file without project id, a file with both ids
NoFile == [selected |-> FALSE, project_id |-> None, urn |-> None]
AutodeskFiles == {NoFile,
                  [selected |-> TRUE, project_id |-> None, urn |-> "urn"],
                  [selected |-> TRUE, project_id |-> "proj", urn |-> "urn"]}

\* fetch_manifest raising, or the RVTVersion of each derivative of the manifest
Manifests == {[ok |-> FALSE, derivatives |-> <<>>],
              [ok |-> TRUE, derivatives |-> <<>>],
              [ok |-> TRUE, derivatives |-> <<None, "2025">>],
              [ok |-> TRUE, derivatives |-> <<"2022">>]}

Configured(v) == [signature |-> "sig" \o v, activity_full_alias |-> "alias" \o v]
Unconfigured == [signature |-> "", activity_full_alias |-> ""]
Versions == {"2023", "2024", "2025", "2026"}

\* TYPE_PARAMETERS_CONFIG with every environment variable set, and with those
\* of 2024 unset
ConfigTables == {[v \in Versions |-> Configured(v)],
                 [v \in Versions |-> IF v = "2024" THEN Unconfigured ELSE Configured(v)]}

Statuses == {"queued", "inprogress", "failedInstructions", None,
             "success", "failed", "cancelled"}
ReportUrls == {None, "", "https://report"}

\* the run's own state before it starts
JobFresh ==
    /\ revit_version = None
    /\ signature = NoSignature
    /\ type_params_config = <<>>
    /\ elapsed = 0
    /\ final_status = None
    /\ report_url = None
    /\ pct = 0
    /\ error = NoError
    /\ summary = NoSummary
    /\ submitted = 0
    /\ polls = 0
    /\ sleeps = 0
    /\ finalized = 0
    /\ prev_status = None

\* no run and no payload build in this process
JobOff ==
    /\ rows = <<>>
    /\ autodesk_file = NoFile
    /\ manifest = [ok |-> FALSE, derivatives |-> <<>>]
    /\ table = [v \in Versions |-> Configured(v)]
    /\ jpc = "off"
    /\ JobFresh

\* no catalog call in this process
CatalogOff == CatalogFresh

InitJob ==
    /\ rows \in JobRowLists
    /\ autodesk_file \in AutodeskFiles
    /\ manifest \in Manifests
    /\ table \in ConfigTables
    /\ jpc = "start"
    /\ JobFresh
    /\ CatalogOff
    /\ UiOff

NextJob ==
    \/ Prepare /\ UNCHANGED <<catalogVars, uiVars>>
    \/ Submit /\ UNCHANGED <<catalogVars, uiVars>>
    \/ \E st \in Statuses, url \in ReportUrls : Poll(st, url) /\ UNCHANGED <<catalogVars, uiVars>>
    \/ PollFails /\ UNCHANGED <<catalogVars, uiVars>>
    \/ Sleep /\ UNCHANGED <<catalogVars, uiVars>>
    \/ Outcome /\ UNCHANGED <<catalogVars, uiVars>>

SpecJob == InitJob /\ [][NextJob]_vars

\* the run is one blocking sequence of calls in its own thread: every call
\* and every sleep returns, so a step that can be taken is taken
SpecJobLive == InitJob /\ [][NextJob]_vars /\ WF_vars(NextJob)

\* the assignment tables of the runs that are followed to their summary:
\* rows of one type with a name, an empty name, a group or none
SummaryRowSet == {r \in RowSet : r.type_name = "T1" /\ r.parameter # None}

SummaryRowLists == UNION {[1..n -> SummaryRowSet] : n \in 0..MaxRows}

InitSummary ==
    /\ rows \in SummaryRowLists
    /\ autodesk_file = [selected |-> TRUE, project_id |-> "proj", urn |-> "urn"]
    /\ manifest = [ok |-> TRUE, derivatives |-> <<None, "2025">>]
    /\ table = [v \in Versions |-> Configured(v)]
    /\ jpc = "start"
    /\ JobFresh
    /\ CatalogOff
    /\ UiOff

\* a run whose work item the engine reports as success at the first fetch
NextSummary ==
    \/ Prepare /\ UNCHANGED <<catalogVars, uiVars>>
    \/ Submit /\ UNCHANGED <<catalogVars, uiVars>>
    \/ \E url \in ReportUrls : Poll("success", url) /\ UNCHANGED <<catalogVars, uiVars>>
    \/ Outcome /\ UNCHANGED <<catalogVars, uiVars>>

SpecSummary == InitSummary /\ [][NextSummary]_vars

\* create_type_params_json applied to a row list
BuildPayload ==
    /\ jpc = "rows"
    /\ jpc' = "built"
    /\ type_params_config' = create_type_params_json(rows)
    /\ UNCHANGED <<jobInputs, jobRunVars, revit_version, signature, pct, error>>

InitPayload ==
    /\ rows \in RowLists
    /\ autodesk_file = NoFile
    /\ manifest = [ok |-> FALSE, derivatives |-> <<>>]
    /\ table = [v \in Versions |-> Configured(v)]
    /\ jpc = "rows"
    /\ JobFresh
    /\ CatalogOff
    /\ UiOff

NextPayload == BuildPayload /\ UNCHANGED <<catalogVars, uiVars>>

SpecPayload == InitPayload /\ [][NextPayload]_vars

\* the responses the server gives in the runs that exercise the cache: pages
\* with results, one continuing cursor, and both kinds of failure
CacheResponses ==
    {r \in Responses :
        /\ r.hasData => r.page.cursor \in {None, "c1"}
        /\ (r.status = 200 /\ ~r.errors) => r.page.results # <<>>}

InitCatalog == CatalogFresh /\ JobOff /\ UiOff

\* one call of get_elements_catalog, against every answer the server can give
NextFetch ==
    \/ \E s \in Sessions, a \in Args : calls = 0 /\ Call(s, a) /\ UNCHANGED <<jobVars, uiVars>>
    \/ \E s \in Sessions, resp \in Responses : FetchPage(s, resp) /\ UNCHANGED <<jobVars, uiVars>>
    \/ \E s \in Sessions : Finish(s) /\ UNCHANGED <<jobVars, uiVars>>

SpecFetch == InitCatalog /\ [][NextFetch]_vars

\* the calls of get_elements_catalog follow one another (no two overlap)
NextCatalog ==
    \/ \E s \in Sessions, a \in Args : Serial /\ Call(s, a) /\ UNCHANGED <<jobVars, uiVars>>
    \/ \E s \in Sessions, resp \in CacheResponses : FetchPage(s, resp) /\ UNCHANGED <<jobVars, uiVars>>
    \/ \E s \in Sessions : Finish(s) /\ UNCHANGED <<jobVars, uiVars>>

SpecCatalog == InitCatalog /\ [][NextCatalog]_vars

\* the responses the server gives in the runs with overlapping calls: a page
\* that continues, a page that ends the build, and a failure
RaceResponses ==
    {r \in CacheResponses :
        \/ r.status # 200
        \/ ~r.errors /\ r.page.results = <<RawE1>> /\ r.page.cursor = None
        \/ ~r.errors /\ r.page.results = <<RawE2, RawE3>> /\ r.page.cursor = "c1"}

\* the calls of get_elements_catalog overlap freely: the hosting environment
\* runs the handlers of different sessions concurrently, nothing locks
NextRace ==
    \/ \E s \in Sessions, a \in Args : Call(s, a) /\ UNCHANGED <<jobVars, uiVars>>
    \/ \E s \in Sessions, resp \in RaceResponses : FetchPage(s, resp) /\ UNCHANGED <<jobVars, uiVars>>
    \/ \E s \in Sessions : Finish(s) /\ UNCHANGED <<jobVars, uiVars>>

SpecRace == InitCatalog /\ [][NextRace]_vars

(***************************************************************************)
(* execute_graphql on its own, against every response                      *)
(***************************************************************************)
StatusCodes == {200, 201, 204, 301, 400, 401, 403, 404, 429, 500, 502, 503}

\* every status code with every body: with or without errors, with a data
\* field or without one
QueryResponses ==
    {[status |-> c, errors |-> e, hasData |-> TRUE, page |-> p] :
        c \in StatusCodes, e \in BOOLEAN, p \in PageBlocks}
    \cup {[status |-> c, errors |-> e, hasData |-> FALSE, page |-> NoPage] :
        c \in StatusCodes, e \in BOOLEAN}

\* one invocation: one requests.post, then the checks on its response
ExecuteGraphql ==
    /\ posts = 0
    /\ posts' = posts + 1
    /\ outcome' = execute_graphql(response)
    /\ UNCHANGED <<response, formVars>>

InitQuery ==
    /\ response \in QueryResponses
    /\ outcome = NoOutcome
    /\ posts = 0
    /\ FormOff
    /\ CatalogFresh
    /\ JobOff

NextQuery == ExecuteGraphql /\ UNCHANGED <<catalogVars, jobVars>>

SpecQuery == InitQuery /\ [][NextQuery]_vars

(***************************************************************************)
(* get_model_info and the derived views of the catalog                     *)
(***************************************************************************)
\* fetch_exchange_id: one execute_graphql call, then the id of its data
fetch_exchange_id(lk) ==
    LET out == execute_graphql([status |-> lk.status, errors |-> lk.errors,
                                hasData |-> TRUE, page |-> NoPage])
    IN IF ~out.ok
       THEN [NoInfo EXCEPT !.kind = "raised",
                           !.error = [type |-> "RuntimeError", reason |-> out.error]]
       ELSE IF ~Truthy(lk.id)
       THEN [NoInfo EXCEPT !.kind = "raised",
                           !.error = [type |-> "UserError", reason |-> "no exchange id"]]
       ELSE [NoInfo EXCEPT !.kind = "info", !.exchange_id = lk.id,
                           !.token = "t1", !.region = "US"]

\* None without a file, vkt.UserError without its ids, else the exchange lookup
get_model_info(file, lk) ==
    IF ~file.selected THEN NoInfo
    ELSE IF ~Truthy(file.project_id)
    THEN [NoInfo EXCEPT !.kind = "raised",
                        !.error = [type |-> "UserError", reason |-> "missing project id"]]
    ELSE IF ~Truthy(file.urn)
    THEN [NoInfo EXCEPT !.kind = "raised",
                        !.error = [type |-> "UserError", reason |-> "missing urn"]]
    ELSE fetch_exchange_id(lk)

\* exchange_id=info["exchange_id"], token=info["token"], region=info["region"]
InfoArgs(i) == [exchange_id |-> i.exchange_id, token |-> i.token, region |-> i.region]

\* the names of the model in the order Python compares strings (by code point)
CodepointOrder == <<"F", "G", "T", "U", "f">>

Rank(x) == CHOOSE i \in 1..Len(CodepointOrder) : CodepointOrder[i] = x

RECURSIVE sorted(_)
\* sorted(a set of names)
sorted(S) ==
    IF S = {} THEN <<>>
    ELSE LET m == CHOOSE x \in S : \A y \in S : Rank(x) <= Rank(y)
         IN <<m>> \o sorted(S \ {m})

\* str.lower() on the names of the model
Lower(x) == IF x = "F" THEN "f" ELSE x

\* {row.get("family_name") for row in catalog if row.get("family_name")}, sorted;
\* the vkt.memoize in front of the two derived views gives back what they
\* compute, the catalog of a key being the same from call to call
get_family_list(cat) ==
    sorted({cat[i].family_name : i \in {j \in 1..Len(cat) : Truthy(cat[j].family_name)}})

\* variant of get_types_for_family that compares the family names without case
get_types_for_family_ignoring_case(cat, family_name) ==
    sorted({cat[i].element_name :
              i \in {j \in 1..Len(cat) : /\ Truthy(cat[j].element_name)
                                         /\ Lower(cat[j].family_name) = Lower(family_name)}})

\* the element names of the records with row.get("family_name") == family_name
get_types_for_family(cat, family_name) ==
    sorted({cat[i].element_name :
              i \in {j \in 1..Len(cat) : /\ Truthy(cat[j].element_name)
                                         /\ cat[j].family_name = family_name}})

(***************************************************************************)
(* autodesk_view: the external-id color map                                *)
(***************************************************************************)
DEFAULT_COLOR == "#0099ff"

\* color.hex if color else "#0099ff"
color_to_hex(color) == IF color # None THEN color ELSE DEFAULT_COLOR

\* the parameter names of the table's rows that are marked visualize
visible_params(tbl) ==
    {tbl[i].parameter_name :
        i \in {j \in 1..Len(tbl) : Truthy(tbl[j].parameter_name) /\ tbl[j].visualize}}

\* variant of RowContributes that does not look at the parameter table
RowContributesAnyParameter(row, visible) == Truthy(row.type_name)

\* the two `continue` tests at the head of the loop over the assignments
RowContributes(row, visible) ==
    /\ Truthy(row.type_name)
    /\ Truthy(row.parameter)
    /\ row.parameter \in visible

\* variant of ElementMatches that compares the type name only
ElementMatchesTypeOnly(e, row) == e.element_name = row.type_name

\* element_name == type_name and (not family_name or family_name == family)
ElementMatches(e, row) ==
    /\ e.element_name = row.type_name
    /\ (~Truthy(row.family) \/ e.family_name = row.family)

\* the assignments external_id_color_map[alt] = color_hex of one row, in order
RowWrites(row, cat, visible) ==
    IF ~RowContributes(row, visible) THEN <<>>
    ELSE LET matched == SelectSeq(cat, LAMBDA e : ElementMatches(e, row))
             withId == SelectSeq(matched, LAMBDA e : Truthy(e.external_id))
         IN [i \in 1..Len(withId) |->
               [id |-> withId[i].external_id, color |-> color_to_hex(row.color)]]

\* variant of SetColor that keeps the value a key already has
SetColorKeepFirst(map, w) ==
    IF \E i \in 1..Len(map) : map[i].id = w.id
    THEN map
    ELSE Append(map, w)

\* d[key] = value on a dict kept as pairs in insertion order
SetColor(map, w) ==
    IF \E i \in 1..Len(map) : map[i].id = w.id
    THEN [i \in 1..Len(map) |-> IF map[i].id = w.id THEN w ELSE map[i]]
    ELSE Append(map, w)

RECURSIVE SetColors(_, _)
SetColors(map, ws) ==
    IF ws = <<>> THEN map ELSE SetColors(SetColor(map, Head(ws)), Tail(ws))

\* the loop over the assignments, from an empty dict
ColorMap(rs, cat, visible) ==
    SetColors(<<>>, Concat([i \in 1..Len(rs) |-> RowWrites(rs[i], cat, visible)]))

PaintedBy(rs, cat, visible) ==
    [i \in 1..Len(rs) |->
        {w.id : w \in {RowWrites(rs[i], cat, visible)[j] :
                          j \in 1..Len(RowWrites(rs[i], cat, visible))}}]

(***************************************************************************)
(* The form handlers: autodesk_view, get_family_options, get_type_options  *)
(***************************************************************************)
formInputs == <<model_file, parameter_table>>
formOutputs == <<options, external_id_color_map, painted, ui_error, caught>>

\* the handler's catalog call is in flight: one page request of it
FormFetch(resp) ==
    /\ upc = "catalog"
    /\ FetchPage(1, resp)
    /\ queries' = queries + 1
    /\ UNCHANGED <<formInputs, formOutputs, lookup, info, upc, field, row_i, was_cached>>

\* the handler calls get_elements_catalog with the arguments of its model info
FormCall(i) ==
    /\ Call(1, InfoArgs(i))
    /\ queries' = 0
    /\ was_cached' = CacheHit(ELEMENT_CACHE, i.exchange_id)

\* autodesk_view up to its get_elements_catalog call
ViewBegin(lk) ==
    /\ upc = "idle"
    /\ field' = "view"
    /\ lookup' = lk
    /\ LET i == get_model_info(model_file, lk)
       IN /\ info' = i
          /\ IF i.kind = "none"
             THEN /\ upc' = "error"
                  /\ ui_error' = [type |-> "UserError", reason |-> "select a model"]
                  /\ UNCHANGED <<catalogVars, queries, was_cached>>
             ELSE IF i.kind = "raised"
             THEN /\ upc' = "error"
                  /\ ui_error' = i.error
                  /\ UNCHANGED <<catalogVars, queries, was_cached>>
             ELSE /\ upc' = "catalog"
                  /\ FormCall(i)
                  /\ UNCHANGED ui_error
    /\ UNCHANGED <<formInputs, row_i, options, external_id_color_map, painted, caught>>

\* autodesk_view from the catalog to the WebResult
ViewRender ==
    /\ upc = "catalog"
    /\ field = "view"
    /\ pc[1] \in {"returned", "raised"}
    /\ Finish(1)
    /\ IF pc[1] = "raised"
       THEN /\ upc' = "error"
            /\ ui_error' = [type |-> "RuntimeError", reason |-> result[1].error]
            /\ UNCHANGED <<external_id_color_map, painted>>
       ELSE /\ upc' = "done"
            /\ external_id_color_map' =
                  ColorMap(rows, result[1].catalog, visible_params(parameter_table))
            /\ painted' = PaintedBy(rows, result[1].catalog, visible_params(parameter_table))
            /\ UNCHANGED ui_error
    /\ UNCHANGED <<formInputs, lookup, info, field, row_i, options, caught, queries, was_cached>>

\* get_family_options / get_type_options up to the first derivation;
\* get_model_info is called before the try block, its exception leaves the
\* handler
OptionsBegin(f, lk) ==
    /\ upc \in {"idle", "done", "error"}
    /\ field' = f
    /\ row_i' = 1
    /\ caught' = {}
    /\ queries' = 0
    /\ was_cached' = FALSE
    /\ IF f = "type" /\ rows = <<>>
       THEN /\ upc' = "done"
            /\ options' = <<>>
            /\ ui_error' = NoUiError
            /\ lookup' = NoLookup
            /\ info' = NoInfo
       ELSE LET i == get_model_info(model_file, lk)
            IN /\ lookup' = lk
               /\ info' = i
               /\ IF i.kind = "none"
                  THEN /\ upc' = "done"
                       /\ options' = IF f = "type" THEN [n \in 1..Len(rows) |-> <<>>] ELSE <<>>
                       /\ ui_error' = NoUiError
                  ELSE IF i.kind = "raised"
                  THEN /\ upc' = "error"
                       /\ options' = <<>>
                       /\ ui_error' = i.error
                  ELSE /\ upc' = "derive"
                       /\ options' = <<>>
                       /\ ui_error' = NoUiError
    /\ UNCHANGED <<catalogVars, formInputs, external_id_color_map, painted>>

\* the derivation of one field's options begins: get_family_list, or
\* get_types_for_family for the row the loop is at
OptionsDerive ==
    /\ upc = "derive"
    /\ IF field = "type" /\ ~Truthy(rows[row_i].family)
       THEN /\ options' = Append(options, <<>>)
            /\ row_i' = row_i + 1
            /\ upc' = IF row_i = Len(rows) THEN "done" ELSE "derive"
            /\ UNCHANGED <<catalogVars, queries, was_cached>>
       ELSE /\ FormCall(info)
            /\ upc' = "catalog"
            /\ UNCHANGED <<options, row_i>>
    /\ UNCHANGED <<formInputs, lookup, info, field, external_id_color_map, painted,
                   ui_error, caught>>

\* the derivation ends: the list computed from the catalog, or the except branch
OptionsCollect ==
    /\ upc = "catalog"
    /\ field \in {"family", "type"}
    /\ pc[1] \in {"returned", "raised"}
    /\ Finish(1)
    /\ caught' = IF pc[1] = "raised" THEN caught \cup {row_i} ELSE caught
    /\ IF field = "family"
       THEN /\ options' = IF pc[1] = "raised" THEN <<>>
                          ELSE get_family_list(result[1].catalog)
            /\ upc' = "done"
            /\ UNCHANGED row_i
       ELSE /\ options' = Append(options,
                              IF pc[1] = "raised" THEN <<>>
                              ELSE get_types_for_family(result[1].catalog, rows[row_i].family))
            /\ row_i' = row_i + 1
            /\ upc' = IF row_i = Len(rows) THEN "done" ELSE "derive"
    /\ UNCHANGED <<formInputs, lookup, info, field, external_id_color_map, painted,
                   ui_error, queries, was_cached>>

(***************************************************************************)
(* Inputs of the form handlers                                             *)
(***************************************************************************)
\* longest assignment table given to a form handler
MaxFormRows == 2

RawE4 == [family |-> "F", element |-> "T", ext |-> ""]
RawE5 == [family |-> "F", element |-> "T", ext |-> "E5"]
RawE6 == [family |-> "f", element |-> "U", ext |-> "E6"]
RawE7 == [family |-> None, element |-> "T", ext |-> "E7"]
RawE8 == [family |-> "G", element |-> "", ext |-> "E8"]

\* the exchange's pages as the form handlers' catalog calls see them, and a
\* failed request
FormResponses ==
    {[status |-> 200, errors |-> FALSE, hasData |-> TRUE,
      page |-> [results |-> <<RawE2, RawE1, RawE3>>, cursor |-> c]] : c \in {None, "c1"}}
    \cup {[status |-> 200, errors |-> FALSE, hasData |-> TRUE,
           page |-> [results |-> <<RawE6, RawE4, RawE5, RawE7, RawE8>>, cursor |-> None]],
          [status |-> 500, errors |-> FALSE, hasData |-> FALSE, page |-> NoPage]}

\* answers to the exchangeByFileUrn query: an id, no id, a failed transport,
\* a rejected query
Lookups == {[status |-> 200, errors |-> FALSE, id |-> "x1"],
            [status |-> 200, errors |-> FALSE, id |-> None],
            [status |-> 500, errors |-> FALSE, id |-> None],
            [status |-> 200, errors |-> TRUE, id |-> None]}

FormRow(ty, fam, par, col) ==
    [type_name |-> ty, family |-> fam, parameter |-> par, color |-> col]

\* rows of the assignment table as the form handlers read them
FormRowSet == {FormRow("T", "F", "P", "#ff0000"),
               FormRow("T", "G", "P", "#00ff00"),
               FormRow("T", None, "P", None),
               FormRow("T", "F", "Q", "#0000ff"),
               FormRow("T", "F", None, "#ff0000"),
               FormRow(None, "F", "P", "#ff0000"),
               FormRow("U", "F", "P", "#00ff00"),
               FormRow("U", "f", "P", "#00ff00"),
               FormRow("V", "", "P", "#ff0000")}

FormRowLists == UNION {[1..n -> FormRowSet] : n \in 0..MaxFormRows}

ParameterRow(name, vis) == [parameter_name |-> name, visualize |-> vis]

ParameterTables == {<<>>,
                    <<ParameterRow("P", TRUE)>>,
                    <<ParameterRow("P", FALSE), ParameterRow("Q", TRUE)>>,
                    <<ParameterRow("P", TRUE), ParameterRow("Q", TRUE), ParameterRow(None, TRUE)>>}

\* no run of the automation in this process, the assignment table as given
JobIdle ==
    /\ autodesk_file = NoFile
    /\ manifest = [ok |-> FALSE, derivatives |-> <<>>]
    /\ table = [v \in Versions |-> Configured(v)]
    /\ jpc = "off"
    /\ JobFresh

InitView ==
    /\ rows \in FormRowLists
    /\ model_file \in AutodeskFiles
    /\ parameter_table \in ParameterTables
    /\ upc = "idle"
    /\ FormFresh
    /\ QueryOff
    /\ JobIdle
    /\ CatalogFresh

\* one autodesk_view
NextView ==
    \/ \E lk \in Lookups : ViewBegin(lk) /\ UNCHANGED <<jobVars, queryVars>>
    \/ \E resp \in FormResponses : FormFetch(resp) /\ UNCHANGED <<jobVars, queryVars>>
    \/ ViewRender /\ UNCHANGED <<jobVars, queryVars>>

SpecView == InitView /\ [][NextView]_vars

\* the families the rows of the option handlers name
OptionRowSet == {r \in FormRowSet : r.parameter = "P" /\ r.type_name # "V"}

OptionRowLists == UNION {[1..n -> OptionRowSet] : n \in 0..MaxFormRows}

InitOptions ==
    /\ rows \in OptionRowLists
    /\ model_file \in AutodeskFiles
    /\ parameter_table = <<>>
    /\ upc = "idle"
    /\ FormFresh
    /\ QueryOff
    /\ JobIdle
    /\ CatalogFresh

\* the option handlers, one after the other, as the form asks for them
NextOptions ==
    \/ \E f \in {"family", "type"}, lk \in Lookups :
          OptionsBegin(f, lk) /\ UNCHANGED <<jobVars, queryVars>>
    \/ OptionsDerive /\ UNCHANGED <<jobVars, queryVars>>
    \/ \E resp \in FormResponses : FormFetch(resp) /\ UNCHANGED <<jobVars, queryVars>>
    \/ OptionsCollect /\ UNCHANGED <<jobVars, queryVars>>

SpecOptions == InitOptions /\ [][NextOptions]_vars

(***************************************************************************)
(* Claims about the catalog fetch (SpecFetch)                              *)
(***************************************************************************)
LastPage(s) == pages[s][Len(pages[s])]

\* the records of all received pages, page after page
PagesInOrder(s) ==
    Concat([i \in 1..Len(pages[s]) |->
              [j \in 1..Len(pages[s][i].results) |->
                 [family_name |-> pages[s][i].results[j].family,
                  element_name |-> pages[s][i].results[j].element,
                  external_id |-> pages[s][i].results[j].ext]]])

\* the server answered N >= 1 requests with a non-empty cursor, each different
\* from the one before, and request N+1 with an empty or unset cursor
AdvancingThenEmpty(s) ==
    /\ Len(pages[s]) >= 2
    /\ \A i \in 1..(Len(pages[s]) - 1) :
          /\ Truthy(pages[s][i].cursor)
          /\ i > 1 => pages[s][i].cursor # pages[s][i - 1].cursor
    /\ ~Truthy(LastPage(s).cursor)

\* C1 - Pagination termination: after N pages with an advancing cursor and a
\* page N+1 with an empty cursor, the fetch has returned, has issued exactly
\* N+1 requests, the first with no cursor and each later one with the cursor of
\* the page before it, and the returned catalog is the concatenation of the
\* pages' elements in page order.
C1_PaginationTermination ==
    \A s \in Sessions :
        AdvancingThenEmpty(s) =>
            /\ pc[s] = "returned"
            /\ Len(sent[s]) = Len(pages[s])
            /\ sent[s][1] = None
            /\ \A i \in 2..Len(sent[s]) : sent[s][i] = pages[s][i - 1].cursor
            /\ result[s] = Returned(PagesInOrder(s))

\* a fetch of N = 2 advancing pages and a third, last page, with elements on
\* more than one page
C1_Witness ==
    \E s \in Sessions :
        /\ AdvancingThenEmpty(s)
        /\ Len(pages[s]) = 3
        /\ pages[s][1].results # <<>>
        /\ pages[s][2].results # <<>>
        /\ pages[s][1].results # pages[s][2].results

\* C2 - Cycle guard: when two consecutive pages carry the same non-empty
\* cursor, no request follows the second of them.
C2_CycleGuard ==
    \A s \in Sessions :
        \A i \in 1..(Len(pages[s]) - 1) :
            (Truthy(pages[s][i].cursor) /\ pages[s][i + 1].cursor = pages[s][i].cursor)
                => Len(sent[s]) <= i + 1

\* C3 (original) - Zero-result termination: no request follows a page that
\* came back with zero results.
C3_ZeroResultStops ==
    \A s \in Sessions :
        \A i \in 1..Len(pages[s]) :
            pages[s][i].results = <<>> => Len(sent[s]) <= i

\* C3 (amended) - a page with zero results and a non-empty cursor does not stop
\* the fetch: the next request carries that cursor; the fetch returns only on a
\* page whose cursor is empty or unset, and then returns what it accumulated.
C3_StopsOnEmptyCursorOnly ==
    \A s \in Sessions :
        /\ \A i \in 1..Len(pages[s]) :
              (pages[s][i].results = <<>> /\ Truthy(pages[s][i].cursor)) =>
                  IF i < Len(sent[s])
                  THEN sent[s][i + 1] = pages[s][i].cursor
                  ELSE pc[s] = "fetching" /\ cursor[s] = pages[s][i].cursor
        /\ (pc[s] = "returned" /\ sent[s] # <<>>) =>
              /\ ~Truthy(LastPage(s).cursor)
              /\ result[s] = Returned(PagesInOrder(s))

\* a zero-result page with a fresh non-empty cursor, followed by the next request
C3_Witness ==
    \E s \in Sessions :
        \E i \in 2..Len(pages[s]) :
            /\ pages[s][i].results = <<>>
            /\ Truthy(pages[s][i].cursor)
            /\ pages[s][i].cursor # pages[s][i - 1].cursor
            /\ Len(sent[s]) > i

(***************************************************************************)
(* Claims about the cache (SpecCatalog)                                    *)
(***************************************************************************)
\* C4 - Cache idempotence: with calls that do not overlap, no key sees more
\* than one completed build, and a call for a key that an earlier call has
\* succeeded for returns the stored catalog without any query call.
C4_CacheIdempotence ==
    /\ \A k \in Keys : builds[k] <= 1
    /\ \A s \in Sessions :
          (pc[s] # "idle" /\ prior[s] = "succeeded") =>
              /\ pc[s] = "returned"
              /\ sent[s] = <<>>
              /\ args[s].exchange_id \in DOMAIN ELEMENT_CACHE
              /\ result[s] = Returned(ELEMENT_CACHE[args[s].exchange_id])

\* a second call for a key already built, with a non-empty catalog
C4_Witness ==
    \E s \in Sessions :
        /\ pc[s] = "returned"
        /\ prior[s] = "succeeded"
        /\ builds[args[s].exchange_id] = 1
        /\ result[s].catalog # <<>>

\* C5 - Build abort on failure: a failed page request ends the call with the
\* error and no catalog, leaves ELEMENT_CACHE (and the memoize store) without
\* an entry for the key; every cached catalog is a completed build; a later
\* call for the key builds afresh, its first request carrying no cursor.
C5_BuildAbort ==
    /\ DOMAIN ELEMENT_CACHE \subseteq done
    /\ \A s \in Sessions :
          /\ pc[s] = "raised" =>
                /\ result[s].kind = "error"
                /\ result[s].catalog = <<>>
                /\ args[s].exchange_id \notin DOMAIN ELEMENT_CACHE
                /\ args[s] \notin DOMAIN memo
          /\ (pc[s] # "idle" /\ prior[s] = "failed") =>
                /\ sent[s] = <<>> =>
                      pc[s] = "fetching" /\ cursor[s] = None /\ catalog[s] = <<>>
                /\ sent[s] # <<>> => sent[s][1] = None

\* a call for a key whose earlier build failed fails again, on a later page,
\* with elements already accumulated
C5_Witness ==
    \E s \in Sessions :
        /\ pc[s] = "raised"
        /\ prior[s] = "failed"
        /\ Len(sent[s]) >= 2
        /\ catalog[s] # <<>>

(***************************************************************************)
(* Claims about the payload builder (SpecPayload)                          *)
(***************************************************************************)
HasParameter(r) == r.parameter \notin {None, ""}

\* the group a row counts under: its own, or the fixed default group
GroupOf(r) == IF r.parameter_group \in {None, ""} THEN "PG_DATA" ELSE r.parameter_group

\* the rows (by position) of a (parameter, group) pair
RowsOfPair(name, group) ==
    {i \in 1..Len(rows) :
        HasParameter(rows[i]) /\ rows[i].parameter = name /\ GroupOf(rows[i]) = group}

PairsOfRows ==
    {<<rows[i].parameter, GroupOf(rows[i])>> : i \in {j \in 1..Len(rows) : HasParameter(rows[j])}}

TargetOfRow(r) ==
    [TypeName |-> IF r.type_name = None THEN "" ELSE r.type_name,
     FamilyName |-> IF r.family = None THEN "" ELSE r.family,
     Value |-> IF r.parameter_value = None THEN "" ELSE r.parameter_value]

\* C9 - Grouping correctness: the payload has exactly one entry per distinct
\* (parameter, group) pair of the rows with a non-empty parameter, the group
\* being the default group where the row names none; an entry's Targets are the
\* targets of exactly the rows of its pair, one per row; rows without a
\* parameter are in no entry.
C9_GroupingCorrectness ==
    jpc = "built" =>
        LET out == type_params_config
        IN /\ {<<out[i].ParameterName, out[i].ParameterGroup>> : i \in 1..Len(out)} = PairsOfRows
           /\ Len(out) = Cardinality(PairsOfRows)
           /\ \A i \in 1..Len(out) :
                 LET mine == RowsOfPair(out[i].ParameterName, out[i].ParameterGroup)
                 IN /\ Len(out[i].Targets) = Cardinality(mine)
                    /\ {out[i].Targets[j] : j \in 1..Len(out[i].Targets)}
                          = {TargetOfRow(rows[r]) : r \in mine}

\* a row without a group and a row naming the default group share one entry,
\* and a row without a parameter is left out
C9_Witness ==
    /\ jpc = "built"
    /\ Len(rows) = 3
    /\ \E i, j, k \in 1..3 :
          /\ rows[i].parameter = "P" /\ rows[i].parameter_group = None
          /\ rows[j].parameter = "P" /\ rows[j].parameter_group = "PG_DATA"
          /\ rows[k].parameter = ""
    /\ Len(type_params_config) = 1
    /\ Len(type_params_config[1].Targets) = 2

(***************************************************************************)
(* Claims about the Design Automation run (SpecJob)                        *)
(***************************************************************************)
NoParameterRows == \A i \in 1..Len(rows) : rows[i].parameter \in {None, ""}

\* C6 - Poll terminal detection: a status fetch returning success, failed or
\* cancelled is the last one: the fetch before it was not terminal, the loop is
\* left at once, and no sleep follows it; when the third fetch is the first
\* terminal one and returns success, the loop ends there, 20 s in.
C6_PollTerminalDetection ==
    /\ polls >= 2 => prev_status \notin {"success", "failed", "cancelled"}
    /\ jpc \in {"poll", "sleep"} => final_status \notin {"success", "failed", "cancelled"}
    /\ final_status \in {"success", "failed", "cancelled"} =>
          /\ jpc \in {"after", "done", "error"}
          /\ sleeps = polls - 1
          /\ elapsed = (polls - 1) * 10
    /\ (polls = 3 /\ final_status = "success") =>
          /\ jpc \in {"after", "done"}
          /\ elapsed = 20
          /\ sleeps = 2

\* queued, queued, success: the run is over after the third fetch
C6_Witness ==
    /\ polls = 3
    /\ prev_status = "queued"
    /\ final_status = "success"
    /\ jpc = "done"
    /\ sleeps = 2

\* C7 - Timeout: once the maximum wait has elapsed without a terminal status
\* the loop is left for good, and the run ends with the job-execution error
\* carrying the last status and, when there is one, the last report URL; that
\* error with a non-terminal status comes only after the maximum wait.
C7_Timeout ==
    /\ elapsed > 600 =>
          /\ jpc \in {"after", "error"}
          /\ final_status \notin {"success", "failed", "cancelled"}
          /\ finalized = 0
    /\ (jpc = "error" /\ elapsed > 600) =>
          error = [type |-> "UserError", reason |-> "job", status |-> final_status,
                   report |-> IF report_url \in {None, ""} THEN None ELSE report_url]
    /\ (jpc = "error" /\ error.reason = "job"
          /\ final_status \notin {"success", "failed", "cancelled"}) => elapsed > 600

\* a run that timed out on "queued" with a report URL in the last poll
C7_Witness ==
    /\ jpc = "error"
    /\ elapsed > 600
    /\ error.status = "queued"
    /\ error.report = "https://report"

\* C8 - Outcome gating: the artifact is finalized, once, and success reported
\* exactly in the runs whose last status is success; a run ending on failed,
\* cancelled or a timeout finalizes nothing, reports no success and ends with
\* the job-execution error.
C8_OutcomeGating ==
    /\ finalized <= 1
    /\ finalized = 1 <=> jpc = "done"
    /\ summary # NoSummary <=> jpc = "done"
    /\ jpc = "done" => final_status = "success"
    /\ ~(jpc = "error" /\ final_status = "success")
    /\ (jpc = "error" /\ polls > 0 /\ error.type # "HTTPError") =>
          /\ error.type = "UserError"
          /\ error.reason = "job"
          /\ error.status = final_status
          /\ final_status # "success"

\* a run that ended in success, finalized its artifact and reported its targets
C8_Witness ==
    /\ jpc = "done"
    /\ final_status = "success"
    /\ finalized = 1
    /\ summary.targets = 3
    /\ polls > 1

\* C10 (original) - Empty payload rejection: with no row carrying a parameter
\* the run ends with a vkt.UserError, nothing submitted, polled or finalized.
C10_EmptyPayloadRejected ==
    (NoParameterRows /\ jpc # "start") =>
        /\ jpc = "error"
        /\ error.type = "UserError"
        /\ submitted = 0 /\ polls = 0 /\ finalized = 0

\* C10 (amended) - with no row carrying a parameter nothing is ever submitted,
\* polled or finalized; the run ends with the validation error when the model
\* checks and the signature resolution before the payload check passed, and
\* with the error of that earlier step otherwise.
C10_EmptyPayloadNeverSubmitted ==
    NoParameterRows =>
        /\ submitted = 0 /\ polls = 0 /\ finalized = 0
        /\ jpc \in {"start", "error"}
        /\ jpc = "error" =>
              IF ~autodesk_file.selected THEN error = UserError("no model")
              ELSE IF autodesk_file.project_id = None THEN error = UserError("missing ids")
              ELSE IF revit_version \notin Versions
              THEN error.type = "ValueError" /\ error.reason = "unsupported version"
              ELSE error = UserError("validation")

\* rows without any parameter, rejected by the payload check
C10_Witness ==
    /\ NoParameterRows
    /\ Len(rows) = 2
    /\ jpc = "error"
    /\ error = UserError("validation")

(***************************************************************************)
(* Claims about the signature resolution and the progress reports (SpecJob) *)
(***************************************************************************)
\* the per-version table has no usable configuration for version v
ConfigMissing(tbl, v) ==
    \/ v \notin DOMAIN tbl
    \/ ~Truthy(tbl[v].signature)
    \/ ~Truthy(tbl[v].activity_full_alias)

\* the model checks that precede the version detection have passed
ModelChecksPassed ==
    /\ autodesk_file.selected
    /\ Truthy(autodesk_file.project_id)
    /\ Truthy(autodesk_file.urn)

\* C11 - Unsupported version: when the detected version has no key in the
\* per-version table, or has a key whose signature or activity alias is empty,
\* the run ends with the unsupported-version error and submits no work item.
C11_UnsupportedVersion ==
    (jpc # "start" /\ ModelChecksPassed /\ ConfigMissing(table, revit_version)) =>
        /\ jpc = "error"
        /\ error.reason = "unsupported version"
        /\ submitted = 0

\* C12 - Progress reporting: from one poll to the next the reported percentage
\* never decreases and stays below 100; 100 is reported only after a success
\* status was observed and the output artifact was finalized.
C12_ProgressReporting ==
    /\ [][(polls' = polls + 1 /\ jpc' # "error") =>
            (pct' >= pct /\ pct' < 100)]_vars
    /\ [](pct >= 100 =>
            (pct = 100 /\ jpc = "done" /\ final_status = "success" /\ finalized = 1))

\* the last poll of a run that waited the whole maximum: the report has grown
\* to its cap
C12_Witness ==
    /\ polls = 61
    /\ elapsed = max_wait
    /\ pct = 90
    /\ jpc = "sleep"

(***************************************************************************)
(* Claims about the poll loop's failures and classifications (SpecJob)     *)
(***************************************************************************)
\* C19 - Status-fetch failure: when a get_workitem_status call fails, the run
\* ends there with that failure: the failed poll is the last fetch (every
\* earlier one was followed by one sleep, this one by none), nothing is
\* finalized, no success is reported, and no step follows.
C19_StatusFetchFailure ==
    /\ [](error.type = "HTTPError" =>
            /\ jpc = "error"
            /\ polls = sleeps + 1
            /\ elapsed = sleeps * poll_interval
            /\ finalized = 0
            /\ summary = NoSummary
            /\ pct < 100)
    /\ [][error.type # "HTTPError"]_vars

\* the third status fetch of a run fails, after two in-progress answers
C19_Witness ==
    /\ error.type = "HTTPError"
    /\ polls = 3
    /\ sleeps = 2
    /\ final_status = "inprogress"
    /\ jpc = "error"

\* C20 - In-progress classification: after a poll that answered with a status
\* other than exactly success, failed or cancelled (a missing status and
\* "failedInstructions" included) the loop sleeps and then polls again; with
\* such a status the loop is left only once elapsed exceeds the maximum wait.
C20_InProgressClassification ==
    (polls > 0 /\ error.type # "HTTPError"
       /\ final_status \notin {"success", "failed", "cancelled"}) =>
        \/ jpc = "sleep" /\ polls = sleeps + 1 /\ elapsed <= max_wait
        \/ jpc = "poll" /\ polls = sleeps /\ elapsed <= max_wait
        \/ jpc \in {"after", "error"} /\ elapsed > max_wait

\* a missing status, then an engine label starting with "failed": the loop is
\* about to sleep again
C20_Witness ==
    /\ polls = 2
    /\ prev_status = None
    /\ final_status = "failedInstructions"
    /\ jpc = "sleep"

(***************************************************************************)
(* Claims about execute_graphql (SpecQuery)                                *)
(***************************************************************************)
\* C14 - Query executor outcome: a status other than 200 gives the transport
\* error whatever the body holds; status 200 with a non-empty error list gives
\* the remote-query error; otherwise the call returns the body's data payload,
\* the empty mapping when the body has no data field; one invocation makes
\* exactly one request.
C14_QueryExecutorOutcome ==
    posts > 0 =>
        /\ posts = 1
        /\ response.status # 200 => (~outcome.ok /\ outcome.error = "HTTP")
        /\ (response.status = 200 /\ response.errors) =>
              (~outcome.ok /\ outcome.error = "GraphQL")
        /\ (response.status = 200 /\ ~response.errors) =>
              /\ outcome.ok
              /\ outcome.error = None
              /\ outcome.page = IF response.hasData THEN response.page ELSE NoPage

\* a failed transport whose body also carries errors: the transport error wins
C14_Witness ==
    /\ posts = 1
    /\ response.status = 503
    /\ response.errors
    /\ outcome.error = "HTTP"

(***************************************************************************)
(* Claims about the cache's entries over time (SpecCatalog, SpecRace)      *)
(***************************************************************************)
\* C15 - Cache stability: with calls that follow one another, an entry of
\* ELEMENT_CACHE is never removed and never changed by any step, and a call
\* made for a key that is cached returns the entry without any query call,
\* whatever the server would answer by then.
C15_CacheStability ==
    /\ [][\A k \in DOMAIN ELEMENT_CACHE :
            /\ k \in DOMAIN ELEMENT_CACHE'
            /\ ELEMENT_CACHE'[k] = ELEMENT_CACHE[k]]_vars
    /\ [][\A s \in Sessions, k \in DOMAIN ELEMENT_CACHE :
            (pc[s] = "idle" /\ pc'[s] # "idle" /\ args'[s].exchange_id = k) =>
                /\ pc'[s] = "returned"
                /\ result'[s] = Returned(ELEMENT_CACHE[k])
                /\ sent'[s] = <<>>]_vars

\* a call for a cached key with arguments not used before: it is answered from
\* ELEMENT_CACHE, with the other key cached as well
C15_Witness ==
    \E s \in Sessions :
        /\ pc[s] = "returned"
        /\ prior[s] = "succeeded"
        /\ sent[s] = <<>>
        /\ Cardinality(DOMAIN memo) = 2
        /\ \A a \in DOMAIN memo : a.exchange_id = args[s].exchange_id
        /\ ELEMENT_CACHE[args[s].exchange_id] # <<>>

\* the catalog records of a build's page log, page after page
CatalogOfPages(ps) ==
    Concat([i \in 1..Len(ps) |->
              [j \in 1..Len(ps[i].results) |->
                 [family_name |-> ps[i].results[j].family,
                  element_name |-> ps[i].results[j].element,
                  external_id |-> ps[i].results[j].ext]]])

\* C16 - Cache race: with overlapping calls, the entry stored for a key is at
\* every moment the whole catalog of the build for that key that completed
\* last: all records of all its pages, in order, and nothing else.
C16_CacheRace ==
    \A k \in DOMAIN ELEMENT_CACHE :
        /\ completed[k] # <<>>
        /\ ELEMENT_CACHE[k] = CatalogOfPages(completed[k][Len(completed[k])])

\* two overlapping calls for the same key have both built a catalog, with
\* different contents, and the entry is the one of the build that ended last
C16_Witness ==
    \E k \in Keys :
        /\ Len(completed[k]) = 2
        /\ CatalogOfPages(completed[k][1]) # CatalogOfPages(completed[k][2])
        /\ ELEMENT_CACHE[k] = CatalogOfPages(completed[k][2])
        /\ \A s \in Sessions :
              /\ pc[s] = "returned"
              /\ args[s].exchange_id = k
              /\ sent[s] # <<>>
              /\ prior[s] = "none"

(***************************************************************************)
(* Claims about autodesk_view (SpecView)                                   *)
(***************************************************************************)
\* the catalog the view rendered from
ViewCatalog == ELEMENT_CACHE[info.exchange_id]

\* the non-empty external ids of the catalog's records of type ty in family fam
IdsOfTypeInFamily(ty, fam) ==
    {ViewCatalog[j].external_id :
        j \in {n \in 1..Len(ViewCatalog) :
                  /\ ViewCatalog[n].element_name = ty
                  /\ ViewCatalog[n].family_name = fam
                  /\ Truthy(ViewCatalog[n].external_id)}}

\* the row's parameter is named by a row of the parameter table marked visualize
ParameterVisualized(r) ==
    /\ Truthy(r.parameter)
    /\ \E j \in 1..Len(parameter_table) :
          /\ parameter_table[j].parameter_name = r.parameter
          /\ parameter_table[j].visualize

MapIds == {external_id_color_map[j].id : j \in 1..Len(external_id_color_map)}

\* C13 (original) - External-id matching for visualization: a row with type T
\* and a non-empty family F colors exactly the external ids of the catalog's
\* records of type T in family F; no record without an external id is in the
\* color map.
C13_ExternalIdMatching ==
    (field = "view" /\ upc = "done") =>
        /\ \A i \in 1..Len(rows) :
              (Truthy(rows[i].type_name) /\ Truthy(rows[i].family)) =>
                  painted[i] = IdsOfTypeInFamily(rows[i].type_name, rows[i].family)
        /\ \A id \in MapIds : Truthy(id)

\* C13 (amended) - a row with type T and a non-empty family F whose parameter
\* is marked visualize in the parameter table colors exactly the external ids
\* of the catalog's records of type T in family F, and such a row without a
\* visualized parameter colors none; the color map holds the ids some row
\* colored, none of them empty.
C13_ExternalIdMatchingOfVisualizedRows ==
    (field = "view" /\ upc = "done") =>
        /\ \A i \in 1..Len(rows) :
              (Truthy(rows[i].type_name) /\ Truthy(rows[i].family)) =>
                  painted[i] = IF ParameterVisualized(rows[i])
                               THEN IdsOfTypeInFamily(rows[i].type_name, rows[i].family)
                               ELSE {}
        /\ MapIds = UNION {painted[i] : i \in 1..Len(rows)}
        /\ \A id \in MapIds : Truthy(id)

\* a visualized row of type T in family F, over a catalog that also has a
\* record of type T in family G and one of type T in family F without an id
C13_Witness ==
    /\ field = "view"
    /\ upc = "done"
    /\ \E i \in 1..Len(rows) :
          /\ rows[i].type_name = "T"
          /\ rows[i].family = "F"
          /\ painted[i] = {"E1", "E5"}
    /\ \E j \in 1..Len(ViewCatalog) : ViewCatalog[j] = ToRecord(RawE2)
    /\ \E j \in 1..Len(ViewCatalog) : ViewCatalog[j] = ToRecord(RawE4)

(***************************************************************************)
(* Claims about the option handlers (SpecOptions)                          *)
(***************************************************************************)
\* C17 - Soft-fail option derivation: no failure met while deriving the
\* options of a field leaves the handler: a failed model-info or exchange-id
\* lookup and a failed catalog fetch both end in an empty option list.
C17_SoftFailOptions ==
    field \in {"family", "type"} =>
        /\ upc # "error"
        /\ ui_error = NoUiError
        /\ (upc = "done" /\ info.kind = "raised") =>
              \/ options = <<>>
              \/ \A n \in 1..Len(options) : options[n] = <<>>
        /\ \A n \in caught :
              IF field = "family" THEN upc = "done" => options = <<>>
              ELSE n <= Len(options) => options[n] = <<>>

\* the names of a list, and whether the list ascends strictly in the order of
\* Python's string comparison
Names(seq) == {seq[n] : n \in 1..Len(seq)}

Ascending(seq) == \A n \in 1..(Len(seq) - 1) : Rank(seq[n]) < Rank(seq[n + 1])

\* the catalog the options were derived from
OptionsCatalog == ELEMENT_CACHE[info.exchange_id]

FamiliesOfCatalog ==
    {OptionsCatalog[j].family_name :
        j \in {n \in 1..Len(OptionsCatalog) : Truthy(OptionsCatalog[n].family_name)}}

TypesOfFamily(fam) ==
    {OptionsCatalog[j].element_name :
        j \in {n \in 1..Len(OptionsCatalog) :
                  /\ Truthy(OptionsCatalog[n].element_name)
                  /\ OptionsCatalog[n].family_name = fam}}

\* C18 - Derived views: the family list is the catalog's distinct non-empty
\* family names in ascending order, each once; the type list of family F is the
\* distinct non-empty element names of the records whose family_name is exactly
\* F, in ascending order, each once; a derivation that finds the key cached
\* issues no query call.
C18_DerivedViews ==
    /\ (field = "family" /\ upc = "done" /\ info.kind = "info" /\ caught = {}) =>
          /\ Ascending(options)
          /\ Names(options) = FamiliesOfCatalog
    /\ (field = "type" /\ info.kind = "info") =>
          \A n \in 1..Len(options) :
              (n \notin caught /\ Truthy(rows[n].family)) =>
                  /\ Ascending(options[n])
                  /\ Names(options[n]) = TypesOfFamily(rows[n].family)
    /\ (field \in {"family", "type"} /\ was_cached) => queries = 0

\* the types of family F and of family f over a catalog that has both: the
\* second derivation finds the catalog cached
C18_Witness ==
    /\ field = "type"
    /\ upc = "done"
    /\ Len(rows) = 2
    /\ rows[1].family = "F"
    /\ rows[2].family = "f"
    /\ options = << <<"T", "U">>, <<"U">> >>
    /\ was_cached
    /\ queries = 0

(***************************************************************************)
(* Claims about the run as a state machine (SpecJobLive)                   *)
(***************************************************************************)
\* the run is over: it returned its summary or an exception left it
Ended == jpc \in {"done", "error"}

Succeeded == jpc = "done" /\ final_status = "success" /\ finalized = 1

Failed == jpc = "error" /\ error.reason = "job" /\ final_status = "failed"

Cancelled == jpc = "error" /\ error.reason = "job" /\ final_status = "cancelled"

TimedOut ==
    /\ jpc = "error"
    /\ error.reason = "job"
    /\ final_status \notin {"success", "failed", "cancelled"}
    /\ elapsed > max_wait

OutcomesReached ==
    Cardinality({o \in {"Succeeded", "Failed", "Cancelled", "TimedOut"} :
                    \/ o = "Succeeded" /\ Succeeded
                    \/ o = "Failed" /\ Failed
                    \/ o = "Cancelled" /\ Cancelled
                    \/ o = "TimedOut" /\ TimedOut})

\* C21 - Job state machine: a run submits at most once and polls only after
\* the submission; a submitted run always comes to its end, and when no status
\* fetch failed that end is exactly one of Succeeded, Failed, Cancelled and
\* TimedOut; finalization happens in Succeeded only, and no step follows the
\* end.
C21_JobStateMachine ==
    /\ [](submitted <= 1)
    /\ []((polls > 0 \/ sleeps > 0 \/ finalized > 0) => submitted = 1)
    /\ []((Ended /\ submitted = 1 /\ error.type # "HTTPError") => OutcomesReached = 1)
    /\ [](~Ended => OutcomesReached = 0)
    /\ [](finalized > 0 => Succeeded)
    /\ [][~Ended]_vars
    /\ (submitted = 1) ~> Ended

\* a run cancelled by the engine after three in-progress answers
C21_Witness ==
    /\ Cancelled
    /\ polls = 4
    /\ sleeps = 3
    /\ prev_status = "inprogress"
    /\ submitted = 1

(***************************************************************************)
(* Claims about the payload's entries (SpecPayload)                        *)
(***************************************************************************)
\* C22 - Job request invariant: whatever the rows, no entry of the payload has
\* an empty ParameterName and no entry has an empty Targets list.
C22_JobRequestInvariant ==
    jpc = "built" =>
        \A i \in 1..Len(type_params_config) :
            /\ type_params_config[i].ParameterName \notin {None, ""}
            /\ Len(type_params_config[i].Targets) >= 1

\* rows with an empty name, with no name and with a name: one entry, for the
\* named row alone
C22_Witness ==
    /\ jpc = "built"
    /\ Len(rows) = 3
    /\ rows[1].parameter = ""
    /\ rows[2].parameter = None
    /\ rows[3].parameter = "Q"
    /\ Len(type_params_config) = 1
    /\ type_params_config[1].ParameterName = "Q"

\* the first row of a (parameter, group) pair
FirstRowOfPair(name, group) ==
    CHOOSE r \in RowsOfPair(name, group) : \A x \in RowsOfPair(name, group) : r <= x

\* the n-th row, in row order, of a set of row positions
NthRow(S, n) == CHOOSE r \in S : Cardinality({x \in S : x <= r}) = n

\* C23 - Entry order: the entries stand in the order in which their
\* (parameter, group) pairs first occur in the rows, and the targets of an
\* entry stand in the order of the rows they come from.
C23_EntryOrder ==
    jpc = "built" =>
        LET out == type_params_config
        IN /\ \A i, j \in 1..Len(out) :
                 i < j => FirstRowOfPair(out[i].ParameterName, out[i].ParameterGroup)
                            < FirstRowOfPair(out[j].ParameterName, out[j].ParameterGroup)
           /\ \A i \in 1..Len(out) :
                 LET mine == RowsOfPair(out[i].ParameterName, out[i].ParameterGroup)
                 IN /\ Len(out[i].Targets) = Cardinality(mine)
                    /\ \A n \in 1..Len(out[i].Targets) :
                          out[i].Targets[n] = TargetOfRow(rows[NthRow(mine, n)])

\* rows Q, P, Q with different targets: the entry of Q comes first and holds
\* the targets of rows 1 and 3 in that order
C23_Witness ==
    /\ jpc = "built"
    /\ Len(rows) = 3
    /\ rows[1].parameter = "Q" /\ rows[1].type_name = "T1"
    /\ rows[2].parameter = "P"
    /\ rows[3].parameter = "Q" /\ rows[3].type_name = None
    /\ rows[1].parameter_group = rows[3].parameter_group
    /\ Len(type_params_config) = 2
    /\ type_params_config[1].ParameterName = "Q"
    /\ type_params_config[1].Targets = <<TargetOfRow(rows[1]), TargetOfRow(rows[3])>>

(***************************************************************************)
(* Claims about the version fallback and the poll bound (SpecJob)          *)
(***************************************************************************)
\* the positions of the manifest's derivatives that carry a version
VersionedDerivatives ==
    {i \in 1..Len(manifest.derivatives) : manifest.derivatives[i] \notin {None, ""}}

\* the manifest fetch raised, or no derivative of the manifest carries a version
DetectionFailed == ~manifest.ok \/ VersionedDerivatives = {}

\* C24 - Version fallback: when the detection fails the run goes on with
\* version "2024" and resolves the signature of "2024"; when a version is
\* detected the run uses that version and no other, and ends with the
\* unsupported-version error, nothing submitted, when the table lacks it.
C24_VersionFallback ==
    (jpc # "start" /\ ModelChecksPassed) =>
        /\ DetectionFailed =>
              /\ revit_version = "2024"
              /\ signature = table["2024"]
              /\ error.reason # "unsupported version"
        /\ ~DetectionFailed =>
              /\ revit_version =
                    manifest.derivatives[CHOOSE i \in VersionedDerivatives :
                                            \A j \in VersionedDerivatives : i <= j]
              /\ revit_version \in DOMAIN table => signature = table[revit_version]
              /\ revit_version \notin DOMAIN table =>
                    /\ jpc = "error"
                    /\ error.type = "ValueError"
                    /\ error.reason = "unsupported version"
                    /\ signature = NoSignature
                    /\ submitted = 0

\* a manifest that was fetched but carries no version: the work item is
\* submitted with the signature of 2024
C24_Witness ==
    /\ manifest.ok
    /\ manifest.derivatives = <<>>
    /\ revit_version = "2024"
    /\ signature = Configured("2024")
    /\ submitted = 1
    /\ jpc = "poll"
    /\ polls = 0

\* the number of status fetches of a run that never sees a terminal status
MaxPolls == max_wait \div poll_interval + 1

\* C25 - Poll bound: no sleep precedes the first status fetch; the n-th fetch
\* is made at elapsed = 10 * (n - 1), the last possible one at elapsed = 600;
\* a run that times out has made exactly 61 fetches; a terminal status given
\* by the 61st fetch ends the run as that status says, success finalizing the
\* artifact.
C25_PollBound ==
    /\ MaxPolls = 61
    /\ polls <= MaxPolls
    /\ elapsed = sleeps * poll_interval
    /\ polls = 0 => sleeps = 0
    /\ jpc = "poll" => (polls = sleeps /\ elapsed <= max_wait)
    /\ jpc = "sleep" => (polls = sleeps + 1 /\ elapsed <= max_wait)
    /\ (polls > 0 /\ jpc \in {"after", "done", "error"}) =>
          \/ polls = sleeps + 1 /\ elapsed <= max_wait
          \/ polls = sleeps /\ polls = MaxPolls /\ elapsed = max_wait + poll_interval
    /\ TimedOut => (polls = MaxPolls /\ sleeps = MaxPolls)
    /\ (polls = MaxPolls /\ Ended /\ error.type # "HTTPError") =>
          /\ final_status = "success" => (Succeeded /\ elapsed = max_wait)
          /\ final_status \in {"failed", "cancelled"} => (~TimedOut /\ elapsed = max_wait)
          /\ final_status \notin {"success", "failed", "cancelled"} => TimedOut

\* success given by the fetch made at elapsed = 600: the artifact is finalized
C25_Witness ==
    /\ polls = MaxPolls
    /\ elapsed = max_wait
    /\ final_status = "success"
    /\ jpc = "done"
    /\ finalized = 1

(***************************************************************************)
(* Claims about the cache's frame (SpecRace)                               *)
(***************************************************************************)
\* the step adds, removes or changes the entry of key k
EntryChanged(k) ==
    \/ (k \in DOMAIN ELEMENT_CACHE) # (k \in DOMAIN ELEMENT_CACHE')
    \/ /\ k \in DOMAIN ELEMENT_CACHE
       /\ k \in DOMAIN ELEMENT_CACHE'
       /\ ELEMENT_CACHE'[k] # ELEMENT_CACHE[k]

\* C26 - Cache frame: a step changes the entry of a key only when it is the
\* end of a build for that very key, so a call for K, succeeding or failing,
\* leaves every other key's entry as it was; a call for a cached key with
\* arguments not used before (another token or region) returns the stored
\* catalog without a query call and without touching the cache.
C26_CacheFrame ==
    /\ [][\A k \in Keys :
            EntryChanged(k) =>
                \E s \in Sessions :
                    /\ args[s].exchange_id = k
                    /\ pc[s] = "fetching"
                    /\ pc'[s] = "returned"]_vars
    /\ [][\A s \in Sessions :
            (pc[s] = "idle" /\ pc'[s] # "idle"
               /\ args'[s].exchange_id \in DOMAIN ELEMENT_CACHE
               /\ args'[s] \notin DOMAIN memo) =>
                /\ pc'[s] = "returned"
                /\ result'[s] = Returned(ELEMENT_CACHE[args'[s].exchange_id])
                /\ sent'[s] = <<>>
                /\ ELEMENT_CACHE' = ELEMENT_CACHE]_vars

\* a build for one key has failed while the other key stays cached, its entry
\* untouched
C26_Witness ==
    \E s \in Sessions, k \in DOMAIN ELEMENT_CACHE :
        /\ pc[s] = "raised"
        /\ args[s].exchange_id # k
        /\ Len(sent[s]) >= 2
        /\ completed[k] # <<>>
        /\ ELEMENT_CACHE[k] = CatalogOfPages(completed[k][1])
        /\ DOMAIN ELEMENT_CACHE = {k}

(***************************************************************************)
(* Claims about the targets and the success summary (SpecSummary)          *)
(***************************************************************************)
\* the targets of a payload, each named by its entry and its place in it
TargetsOf(out) ==
    UNION {{<<i, n>> : n \in 1..Len(out[i].Targets)} : i \in 1..Len(out)}

RowsWithParameter == {i \in 1..Len(rows) : HasParameter(rows[i])}

\* C27 - Target conservation: the payload has as many targets as the rows
\* have non-empty parameters, equal rows counting once each, and the success
\* summary reports that number as its total targets and the number of distinct
\* (parameter, group) pairs as its configured parameters.
C27_TargetConservation ==
    /\ jpc \in {"submit", "poll", "sleep", "after", "done"} =>
          /\ Cardinality(TargetsOf(type_params_config)) = Cardinality(RowsWithParameter)
          /\ Len(type_params_config) = Cardinality(PairsOfRows)
    /\ jpc = "done" =>
          /\ summary.targets = Cardinality(RowsWithParameter)
          /\ summary.configured = Cardinality(PairsOfRows)

\* two equal rows and a row with an empty name: one parameter, two targets
C27_Witness ==
    /\ jpc = "done"
    /\ Len(rows) = 3
    /\ rows[1] = rows[2]
    /\ rows[1].parameter = "P"
    /\ rows[3].parameter = ""
    /\ summary.configured = 1
    /\ summary.targets = 2

(***************************************************************************)
(* Claims about the construction of the color map (SpecView)               *)
(***************************************************************************)
\* the non-empty external ids of the catalog's records of type ty
IdsOfType(ty) ==
    {ViewCatalog[j].external_id :
        j \in {n \in 1..Len(ViewCatalog) :
                  /\ ViewCatalog[n].element_name = ty
                  /\ Truthy(ViewCatalog[n].external_id)}}

\* the families of the catalog's records of type ty that carry the id
FamiliesOfId(ty, id) ==
    {ViewCatalog[j].family_name :
        j \in {n \in 1..Len(ViewCatalog) :
                  /\ ViewCatalog[n].element_name = ty
                  /\ ViewCatalog[n].external_id = id}}

\* the rows that colored the id
RowsPainting(id) == {i \in 1..Len(rows) : id \in painted[i]}

LastRowPainting(id) ==
    CHOOSE i \in RowsPainting(id) : \A k \in RowsPainting(id) : k <= i

\* the hex string of the row's color, blue for a row without one
HexOfRow(r) == IF r.color = None THEN "#0099ff" ELSE r.color

\* C28 - Color map construction: only rows with a type name and a parameter
\* marked visualize in the parameter table color anything; such a row with an
\* empty family colors the ids of that type in every family; an id colored by
\* several rows keeps the color of the last of them in row order, and each id
\* is in the map exactly once.
C28_ColorMapConstruction ==
    (field = "view" /\ upc = "done") =>
        /\ \A i \in 1..Len(rows) :
              ~(Truthy(rows[i].type_name) /\ ParameterVisualized(rows[i])) =>
                  painted[i] = {}
        /\ \A i \in 1..Len(rows) :
              (/\ Truthy(rows[i].type_name)
               /\ ParameterVisualized(rows[i])
               /\ ~Truthy(rows[i].family)) =>
                  painted[i] = IdsOfType(rows[i].type_name)
        /\ \A j \in 1..Len(external_id_color_map) :
              /\ RowsPainting(external_id_color_map[j].id) # {}
              /\ external_id_color_map[j].color =
                    HexOfRow(rows[LastRowPainting(external_id_color_map[j].id)])
        /\ \A id \in UNION {painted[i] : i \in 1..Len(rows)} : id \in MapIds
        /\ Len(external_id_color_map) = Cardinality(MapIds)

\* a red row of family F followed by a row without family and without color:
\* the second colors ids of two families and its blue replaces the red
C28_Witness ==
    /\ field = "view"
    /\ upc = "done"
    /\ Len(rows) = 2
    /\ rows[1].color = "#ff0000"
    /\ rows[2].family = None
    /\ rows[2].color = None
    /\ \E id \in painted[1] \cap painted[2] :
          /\ \E j \in 1..Len(external_id_color_map) :
                external_id_color_map[j] = [id |-> id, color |-> "#0099ff"]
    /\ \E id \in painted[2] : FamiliesOfId(rows[2].type_name, id) # {"F"}
    /\ Cardinality(painted[2]) >= 2

====
